---- MODULE Spec2Model ----
(***************************************************************************)
(* Model of chain/consensus/mir/types.go: the checkpoint records, the      *)
(* quorum-certificate verifier (CheckpointData.Verify), the two block      *)
(* header slots (AsVRFProof / ConfigAsElectionProof and their decoders),   *)
(* Checkpoint.Cid and segmentForCheckpointPeriod.                          *)
(*                                                                         *)
(* Values.  A node identity (a Go string) is a number of Nodes, a node     *)
(* address is NodeAddress(id), a cid.Cid is a number with Undef the zero   *)
(* value, a byte string is a sequence of numbers.  A Go map is a function  *)
(* on its key set; a Go slice is a sequence, and for BlockCids, the only   *)
(* slice the code compares with nil, the record keeps the nil flag in      *)
(* BlockCidsNil.                                                           *)
(***************************************************************************)
EXTENDS Integers, Sequences, FiniteSets, TLC

\* ------------------------------------------------------------ bounds
NumNodes == 5
MaxCert == 3
MaxMemberships == 2
MaxHeight == 1
MaxBlockCids == 2
MaxCid == 1
MaxPeriod == 12

Nodes == 1..NumNodes

\* cid.Undef, the zero value of cid.Cid
Undef == 0

\* ------------------------------------------------------------ helpers
\* Go's integer division truncates toward zero (b > 0 here; b = 0 panics
\* and is handled by the callers).
GoDiv(a, b) == IF a >= 0 THEN a \div b ELSE -((-a) \div b)

RECURSIVE SetToSortedSeq(_)
\* the keys of a map in increasing order
SetToSortedSeq(S) ==
  IF S = {} THEN <<>>
  ELSE LET m == CHOOSE x \in S : \A y \in S : x <= y
       IN <<m>> \o SetToSortedSeq(S \ {m})

RECURSIVE Flatten(_)
Flatten(ss) == IF ss = <<>> THEN <<>> ELSE Head(ss) \o Flatten(Tail(ss))

\* all orders in which a range loop can visit the keys of a map
Orders(S) ==
  {o \in [1..Cardinality(S) -> S] : \A i, j \in 1..Cardinality(S) : o[i] = o[j] => i = j}

\* ------------------------------------------------------------ records
ParentMetaZero == [Height |-> 0, Cid |-> Undef]

NodeAddress(id) == 10 + id

\* Membership{M: map[string]MembershipInfo} over the key set S
MembershipOf(S) == [M |-> [id \in S |-> [I |-> NodeAddress(id)]]]

\* ------------------------------------------------------------ signing
RECURSIVE DigestFrom(_, _)
DigestFrom(h, b) ==
  IF b = <<>> THEN h ELSE DigestFrom((h * 31 + Head(b)) % 251, Tail(b))

\* hash: a fixed-size digest of a byte string
hash(b) == <<DigestFrom(7, b)>>

MembershipBytes(m) ==
  <<Cardinality(DOMAIN m.M)>> \o
  Flatten([i \in 1..Cardinality(DOMAIN m.M) |->
             LET id == SetToSortedSeq(DOMAIN m.M)[i] IN <<id, m.M[id].I>>])

\* snapshotForHash: the agreed-upon fields of the checkpoint and its
\* configuration; the certificate is not part of what is signed.
snapshotForHash(c) ==
  <<c.Checkpoint.Height, Len(c.Checkpoint.BlockCids)>> \o c.Checkpoint.BlockCids \o
  <<c.Checkpoint.Parent.Height, c.Checkpoint.Parent.Cid, c.Config.EpochNr,
    Len(c.Config.Memberships)>> \o
  Flatten([i \in 1..Len(c.Config.Memberships) |-> MembershipBytes(c.Config.Memberships[i])])

\* serializing.CheckpointForSig(epoch, sn, hash)
CheckpointForSig(epochNr, sn, h) == <<epochNr, sn>> \o h

CheckBytes(c) == CheckpointForSig(c.Config.EpochNr, c.Sn, hash(snapshotForHash(c)))

\* the one signature of node id over the pre-image
SignatureOf(id, checkBytes) == <<id>> \o checkBytes

\* verifySig(checkBytes, sig, nodeID): TRUE iff err == nil
verifySig(checkBytes, sig, nodeID) == sig = SignatureOf(nodeID, checkBytes)

\* a signature with its byte at position i altered
AlterSig(sig, i) == [sig EXCEPT ![i] = (@ + 1) % 256]

\* the signature a byzantine or faulty signer attaches: not the node's own
BadSignatureOf(id, checkBytes) ==
  AlterSig(SignatureOf(id, checkBytes), Len(SignatureOf(id, checkBytes)))

\* ------------------------------------------------------------ Verify
Ok == [kind |-> "ok", node |-> 0, got |-> 0, required |-> 0]
Panic == [kind |-> "panic", node |-> 0, got |-> 0, required |-> 0]
Insufficient(got, required) ==
  [kind |-> "insufficient", node |-> 0, got |-> got, required |-> required]
Unauthorized(id) == [kind |-> "unauthorized", node |-> id, got |-> 0, required |-> 0]
InvalidSig(id) == [kind |-> "invalidsig", node |-> id, got |-> 0, required |-> 0]

\* f := (n - 1) / 3
FaultTolerance(n) == GoDiv(n - 1, 3)

\* the count with the +1 forgotten
RequiredOffByOne(n) == FaultTolerance(n)
\* f+1, the number of certificate entries Verify asks for
Required(n) == FaultTolerance(n) + 1

\* the loop body without one of its two checks
EntryCheckNoMembership(membership, checkBytes, nodeID, sig) ==
  IF ~verifySig(checkBytes, sig.Sig, nodeID) THEN InvalidSig(nodeID) ELSE Ok
EntryCheckNoSignature(membership, checkBytes, nodeID, sig) ==
  IF nodeID \notin DOMAIN membership THEN Unauthorized(nodeID) ELSE Ok
\* the body of the range loop for one certificate entry
EntryCheck(membership, checkBytes, nodeID, sig) ==
  IF nodeID \notin DOMAIN membership THEN Unauthorized(nodeID)
  ELSE IF ~verifySig(checkBytes, sig.Sig, nodeID) THEN InvalidSig(nodeID)
  ELSE Ok

\* a loop that returns after its first entry
VerifyLoopFirstDecides(membership, checkBytes, cert, order) ==
  IF order = <<>> THEN Ok
  ELSE EntryCheck(membership, checkBytes, Head(order), cert[Head(order)])
RECURSIVE VerifyLoop(_, _, _, _)
\* for nodeID, sig := range cd.Config.Cert, visiting the keys in `order`
VerifyLoop(membership, checkBytes, cert, order) ==
  IF order = <<>> THEN Ok
  ELSE LET r == EntryCheck(membership, checkBytes, Head(order), cert[Head(order)])
       IN IF r.kind # "ok" THEN r
          ELSE VerifyLoop(membership, checkBytes, cert, Tail(order))

\* func (cd *CheckpointData) Verify() error, the certificate map visited in `order`
Verify(c, order) ==
  IF Len(c.Config.Memberships) = 0 THEN Panic
  ELSE LET membership == c.Config.Memberships[1].M
           n == Cardinality(DOMAIN membership)
           k == Cardinality(DOMAIN c.Config.Cert)
       IN IF k < Required(n) THEN Insufficient(k, Required(n))
          ELSE VerifyLoop(membership, CheckBytes(c), c.Config.Cert, order)

\* ------------------------------------------------------------ canonical encoding
\* A byte string is a sequence of numbers.  A struct is written as its
\* field count followed by its fields in declaration order, a slice or
\* byte string as its length followed by its elements, a map as its entry
\* count followed by its entries in increasing key order.
NoBytes == [err |-> TRUE, b |-> <<>>]
Bytes(b) == [err |-> FALSE, b |-> b]

\* a cid.Cid field holding cid.Undef cannot be serialized
HasUndefCid(ch) ==
  \/ ch.Parent.Cid = Undef
  \/ \E i \in 1..Len(ch.BlockCids) : ch.BlockCids[i] = Undef

MarshalParentMeta(p) == <<2, p.Height, p.Cid>>

MarshalCheckpoint(ch) ==
  <<3, ch.Height, Len(ch.BlockCids)>> \o ch.BlockCids \o MarshalParentMeta(ch.Parent)

MarshalMembership(m) ==
  <<1, Cardinality(DOMAIN m.M)>> \o
  Flatten([i \in 1..Cardinality(DOMAIN m.M) |->
             LET id == SetToSortedSeq(DOMAIN m.M)[i] IN <<id, 1, m.M[id].I>>])

MarshalCert(cert) ==
  <<Cardinality(DOMAIN cert)>> \o
  Flatten([i \in 1..Cardinality(DOMAIN cert) |->
             LET id == SetToSortedSeq(DOMAIN cert)[i]
             IN <<id, 1, Len(cert[id].Sig)>> \o cert[id].Sig])

MarshalEpochConfig(cfg) ==
  <<4, cfg.EpochNr, Len(cfg.Memberships)>> \o
  Flatten([i \in 1..Len(cfg.Memberships) |-> MarshalMembership(cfg.Memberships[i])]) \o
  MarshalCert(cfg.Cert) \o <<cfg.SegmentLength>>

MarshalCheckpointData(c) ==
  <<3>> \o MarshalCheckpoint(c.Checkpoint) \o <<c.Sn>> \o MarshalEpochConfig(c.Config)

\* func (ch *Checkpoint) Bytes() ([]byte, error)
CheckpointBytes(ch) ==
  IF HasUndefCid(ch) THEN NoBytes ELSE Bytes(MarshalCheckpoint(ch))

\* func (ch *CheckpointData) Bytes() ([]byte, error)
CheckpointDataBytes(c) ==
  IF HasUndefCid(c.Checkpoint) THEN NoBytes ELSE Bytes(MarshalCheckpointData(c))

\* ------------------------------------------------------------ decoding
\* A parser returns [ok, v, rest]: the value read and the bytes left.
Bad == [ok |-> FALSE, v |-> <<>>, rest |-> <<>>]
Good(v, rest) == [ok |-> TRUE, v |-> v, rest |-> rest]
Drop(b, n) == SubSeq(b, n + 1, Len(b))

UnmarshalParentMeta(b) ==
  IF Len(b) < 3 \/ b[1] # 2 THEN Bad
  ELSE Good([Height |-> b[2], Cid |-> b[3]], Drop(b, 3))

\* a zero-length array leaves the slice nil
UnmarshalCheckpoint(b) ==
  IF Len(b) < 3 \/ b[1] # 3 \/ b[3] < 0 \/ Len(b) < 3 + b[3] THEN Bad
  ELSE LET n == b[3]
           p == UnmarshalParentMeta(Drop(b, 3 + n))
       IN IF ~p.ok THEN Bad
          ELSE Good([Height |-> b[2], BlockCids |-> SubSeq(b, 4, 3 + n),
                     BlockCidsNil |-> (n = 0), Parent |-> p.v], p.rest)

RECURSIVE UnmarshalMembershipEntries(_, _, _)
UnmarshalMembershipEntries(b, count, acc) ==
  IF count = 0 THEN Good(acc, b)
  ELSE IF Len(b) < 3 \/ b[2] # 1 THEN Bad
  ELSE UnmarshalMembershipEntries(Drop(b, 3), count - 1, (b[1] :> [I |-> b[3]]) @@ acc)

UnmarshalMembership(b) ==
  IF Len(b) < 2 \/ b[1] # 1 \/ b[2] < 0 THEN Bad
  ELSE LET e == UnmarshalMembershipEntries(Drop(b, 2), b[2], <<>>)
       IN IF ~e.ok THEN Bad ELSE Good([M |-> e.v], e.rest)

RECURSIVE UnmarshalMemberships(_, _, _)
UnmarshalMemberships(b, count, acc) ==
  IF count = 0 THEN Good(acc, b)
  ELSE LET m == UnmarshalMembership(b)
       IN IF ~m.ok THEN Bad
          ELSE UnmarshalMemberships(m.rest, count - 1, Append(acc, m.v))

RECURSIVE UnmarshalCert(_, _, _)
UnmarshalCert(b, count, acc) ==
  IF count = 0 THEN Good(acc, b)
  ELSE IF Len(b) < 3 \/ b[2] # 1 \/ b[3] < 0 \/ Len(b) < 3 + b[3] THEN Bad
  ELSE UnmarshalCert(Drop(b, 3 + b[3]), count - 1,
                     (b[1] :> [Sig |-> SubSeq(b, 4, 3 + b[3])]) @@ acc)

UnmarshalEpochConfig(b) ==
  IF Len(b) < 3 \/ b[1] # 4 \/ b[3] < 0 THEN Bad
  ELSE LET ms == UnmarshalMemberships(Drop(b, 3), b[3], <<>>)
       IN IF ~ms.ok \/ Len(ms.rest) < 1 \/ ms.rest[1] < 0 THEN Bad
          ELSE LET ce == UnmarshalCert(Drop(ms.rest, 1), ms.rest[1], <<>>)
               IN IF ~ce.ok \/ Len(ce.rest) < 1 THEN Bad
                  ELSE Good([EpochNr |-> b[2], Memberships |-> ms.v, Cert |-> ce.v,
                             SegmentLength |-> ce.rest[1]], Drop(ce.rest, 1))

UnmarshalCheckpointData(b) ==
  IF Len(b) < 1 \/ b[1] # 3 THEN Bad
  ELSE LET ch == UnmarshalCheckpoint(Drop(b, 1))
       IN IF ~ch.ok \/ Len(ch.rest) < 1 THEN Bad
          ELSE LET cfg == UnmarshalEpochConfig(Drop(ch.rest, 1))
               IN IF ~cfg.ok THEN Bad
                  ELSE Good([Checkpoint |-> ch.v, Sn |-> ch.rest[1], Config |-> cfg.v],
                            cfg.rest)

\* ------------------------------------------------------------ block slots
\* A call's outcome carries err (the Go error is non-nil) beside its value.
TicketError == [err |-> TRUE, VRFProof |-> <<>>]
Ticket(b) == [err |-> FALSE, VRFProof |-> b]
ElectionProof(b) == [err |-> FALSE, WinCount |-> 0, VRFProof |-> b]

\* the slot written without stripping the certificate
AsVRFProofKeepsCert(c) ==
  LET b == CheckpointDataBytes(c) IN IF b.err THEN TicketError ELSE Ticket(b.b)
\* func (cd CheckpointData) AsVRFProof() (*ltypes.Ticket, error)
AsVRFProof(c) ==
  LET stripped == [c EXCEPT !.Config.Cert = <<>>]
      b == CheckpointDataBytes(stripped)
  IN IF b.err THEN TicketError ELSE Ticket(b.b)

\* the slot written without stripping the memberships
ConfigAsElectionProofKeepsMemberships(c) == ElectionProof(MarshalEpochConfig(c.Config))
\* func (cd CheckpointData) ConfigAsElectionProof() (*ltypes.ElectionProof, error)
ConfigAsElectionProof(c) ==
  ElectionProof(MarshalEpochConfig([c.Config EXCEPT !.Memberships = <<>>]))

DecodeError == [err |-> TRUE, v |-> <<>>]
Decoded(v) == [err |-> FALSE, v |-> v]

\* func CheckpointFromVRFProof(t *ltypes.Ticket) (*CheckpointData, error)
CheckpointFromVRFProof(t) ==
  LET r == UnmarshalCheckpointData(t.VRFProof)
  IN IF ~r.ok THEN DecodeError ELSE Decoded(r.v)

\* func ConfigFromElectionProof(t *ltypes.ElectionProof) (*EpochConfig, error)
ConfigFromElectionProof(t) ==
  LET r == UnmarshalEpochConfig(t.VRFProof)
  IN IF ~r.ok THEN DecodeError ELSE Decoded(r.v)

\* ------------------------------------------------------------ Cid
\* cid.NewCidV1(codec, h): a defined identifier, never cid.Undef
NewCidV1(h) == 1 + h[1]

\* the emptiness test without the BlockCids == nil conjunct
isEmptyIgnoresBlockCids(ch) == ch.Height = 0 /\ ch.Parent = ParentMetaZero
\* func (ch *Checkpoint) isEmpty() bool
isEmpty(ch) == ch.Height = 0 /\ ch.BlockCidsNil /\ ch.Parent = ParentMetaZero

\* func (ch *Checkpoint) Cid() (cid.Cid, error)
Cid(ch) ==
  IF isEmpty(ch) THEN [cid |-> Undef, err |-> FALSE]
  ELSE LET b == CheckpointBytes(ch)
       IN IF b.err THEN [cid |-> Undef, err |-> TRUE]
          ELSE [cid |-> NewCidV1(hash(b.b)), err |-> FALSE]

\* ------------------------------------------------------------ segment length
SegPanic == [kind |-> "panic", segment |-> 0]
SegError == [kind |-> "error", segment |-> 0]
SegOk(s) == [kind |-> "ok", segment |-> s]

\* func segmentForCheckpointPeriod(desiredPeriod int, membership map[...]...) (int, error)
segmentForCheckpointPeriod(desiredPeriod, membership) ==
  IF Cardinality(DOMAIN membership) = 0 THEN SegPanic
  ELSE LET segment == GoDiv(desiredPeriod, Cardinality(DOMAIN membership))
       IN IF segment < 1 THEN SegError ELSE SegOk(segment)

\* ------------------------------------------------------------ state
\* cd            the CheckpointData the operations are applied to
\* res           res[run]: the outcome of the run-th call of cd.Verify()
\* ticket        the outcome of cd.AsVRFProof()
\* fromTicket    the outcome of CheckpointFromVRFProof(ticket)
\* eproof        the outcome of cd.ConfigAsElectionProof()
\* fromEProof    the outcome of ConfigFromElectionProof(eproof)
\* altered       a signature of fromEProof's certificate was altered
\* y, yRes       the reassembled record and the outcome of y.Verify()
\* cidRes        the outcome of cd.Checkpoint.Cid()
\* desiredPeriod, segMembership, segRes
\*               the arguments and outcome of segmentForCheckpointPeriod
\* A variable holding an outcome is <<>> until the call is made and <<r>> after.
VARIABLES cd, res, ticket, fromTicket, eproof, fromEProof, altered, y, yRes,
          cidRes, desiredPeriod, segMembership, segRes

vars == <<cd, res, ticket, fromTicket, eproof, fromEProof, altered, y, yRes,
          cidRes, desiredPeriod, segMembership, segRes>>

Runs == {1, 2}

\* ------------------------------------------------------------ inputs
Cids == 0..MaxCid

BlockCidSeqs == UNION {[1..k -> Cids] : k \in 0..MaxBlockCids}

Checkpoints ==
  {[Height |-> h, BlockCids |-> s, BlockCidsNil |-> nl,
    Parent |-> [Height |-> ph, Cid |-> pc]] :
      h \in 0..MaxHeight, s \in BlockCidSeqs, nl \in {FALSE}, ph \in 0..MaxHeight, pc \in Cids}
  \cup
  {[Height |-> h, BlockCids |-> <<>>, BlockCidsNil |-> TRUE,
    Parent |-> [Height |-> ph, Cid |-> pc]] :
      h \in 0..MaxHeight, ph \in 0..MaxHeight, pc \in Cids}

\* checkpoints as the bridge emits them: every identifier defined
SampleCheckpoints ==
  {ch \in Checkpoints :
     /\ ~HasUndefCid(ch)
     /\ ch.Height = MaxHeight
     /\ ch.Parent.Height = 0
     /\ \A i \in 1..Len(ch.BlockCids) : ch.BlockCids[i] = MaxCid}

\* Memberships: the membership 1..k of the epoch, repeated for the epochs
\* the configuration covers; <<>> is a record with no membership at all.
MembershipSeqs ==
  {<<>>} \cup
  {[i \in 1..len |-> MembershipOf(1..k)] : len \in {1, MaxMemberships}, k \in 0..NumNodes}

\* the sequences that hold the epoch's membership alone
SingleMemberships == {ms \in MembershipSeqs : Len(ms) <= 1}

CertKeySets == {K \in SUBSET Nodes : Cardinality(K) <= MaxCert}

\* (Sn, EpochNr, SegmentLength)
Counters == {<<0, 0, 0>>, <<7, 3, 2>>}

BaseCD(ch, cnt, ms) ==
  [Checkpoint |-> ch, Sn |-> cnt[1],
   Config |-> [EpochNr |-> cnt[2], Memberships |-> ms, Cert |-> <<>>,
               SegmentLength |-> cnt[3]]]

\* base with a certificate over the key set K, the nodes of B signing badly
SignedCD(base, K, B) ==
  [base EXCEPT !.Config.Cert =
     [id \in K |-> [Sig |-> IF id \in B THEN BadSignatureOf(id, CheckBytes(base))
                            ELSE SignatureOf(id, CheckBytes(base))]]]

\* base with a certificate over K whose signatures are empty byte strings
UnsignedCD(base, K) == [base EXCEPT !.Config.Cert = [id \in K |-> [Sig |-> <<>>]]]

\* the sample checkpoint with all its block identifiers
FullCheckpoint ==
  CHOOSE ch \in SampleCheckpoints : Len(ch.BlockCids) = MaxBlockCids

\* a configuration that also carries the memberships of the epochs to come
LongMemberships == [i \in 1..MaxMemberships |-> MembershipOf(1..(NumNodes - 1))]

VerifyInputs ==
  UNION {{SignedCD(BaseCD(FullCheckpoint, <<7, 3, 2>>, ms), K, B) : B \in SUBSET K} :
           ms \in SingleMemberships \cup {LongMemberships}, K \in CertKeySets}

ProofSlotInputs ==
  {SignedCD(BaseCD(ch, cnt, ms), K, {}) :
     ch \in Checkpoints, cnt \in Counters, ms \in MembershipSeqs, K \in {{}, {1, NumNodes}}}

ElectionSlotInputs ==
  UNION {{SignedCD(BaseCD(ch, cnt, ms), K, B) : B \in SUBSET K} \cup
         {UnsignedCD(BaseCD(ch, cnt, ms), K)} :
           ch \in {FullCheckpoint}, cnt \in Counters, ms \in MembershipSeqs, K \in CertKeySets}

\* checkpoints as the engine certifies them: every signer is a member and
\* signs the pre-image; the certificate may still be too small
EndToEndInputs ==
  UNION {{SignedCD(BaseCD(ch, <<7, 3, 2>>, <<MembershipOf(1..k)>>), K, {}) :
            K \in {S \in CertKeySets : S \subseteq 1..k}} :
           ch \in {c \in SampleCheckpoints : Len(c.BlockCids) \in {0, MaxBlockCids}},
           k \in 0..NumNodes}

CidInputs == {BaseCD(ch, <<0, 0, 0>>, <<>>) : ch \in Checkpoints}

SegmentMemberships == {MembershipOf(1..k).M : k \in 0..NumNodes}

\* ------------------------------------------------------------ initial states
NothingCalled ==
  /\ res = [r \in Runs |-> <<>>]
  /\ ticket = <<>> /\ fromTicket = <<>> /\ eproof = <<>> /\ fromEProof = <<>>
  /\ altered = FALSE /\ y = <<>> /\ yRes = <<>>
  /\ cidRes = <<>> /\ segRes = <<>>

NoSegmentCall == desiredPeriod = 0 /\ segMembership = MembershipOf({}).M

Init == cd \in VerifyInputs /\ NothingCalled /\ NoSegmentCall
InitProofSlot == cd \in ProofSlotInputs /\ NothingCalled /\ NoSegmentCall
InitElectionSlot == cd \in ElectionSlotInputs /\ NothingCalled /\ NoSegmentCall
InitEndToEnd == cd \in EndToEndInputs /\ NothingCalled /\ NoSegmentCall
InitCid == cd \in CidInputs /\ NothingCalled /\ NoSegmentCall
InitSegment ==
  /\ cd \in {BaseCD(ch, <<0, 0, 0>>, <<>>) : ch \in {ch \in Checkpoints : isEmpty(ch)}}
  /\ NothingCalled
  /\ desiredPeriod \in (-MaxPeriod)..MaxPeriod
  /\ segMembership \in SegmentMemberships

\* ------------------------------------------------------------ actions
\* cd.Verify(), the range loop visiting the certificate in some order
VerifyAct(run) ==
  /\ res[run] = <<>>
  /\ \E order \in Orders(DOMAIN cd.Config.Cert) :
       res' = [res EXCEPT ![run] = <<Verify(cd, order)>>]
  /\ UNCHANGED <<cd, ticket, fromTicket, eproof, fromEProof, altered, y, yRes,
                 cidRes, desiredPeriod, segMembership, segRes>>

AsVRFProofAct ==
  /\ ticket = <<>>
  /\ ticket' = <<AsVRFProof(cd)>>
  /\ UNCHANGED <<cd, res, fromTicket, eproof, fromEProof, altered, y, yRes,
                 cidRes, desiredPeriod, segMembership, segRes>>

CheckpointFromVRFProofAct ==
  /\ ticket # <<>> /\ ~ticket[1].err
  /\ fromTicket = <<>>
  /\ fromTicket' = <<CheckpointFromVRFProof(ticket[1])>>
  /\ UNCHANGED <<cd, res, ticket, eproof, fromEProof, altered, y, yRes,
                 cidRes, desiredPeriod, segMembership, segRes>>

ConfigAsElectionProofAct ==
  /\ eproof = <<>>
  /\ eproof' = <<ConfigAsElectionProof(cd)>>
  /\ UNCHANGED <<cd, res, ticket, fromTicket, fromEProof, altered, y, yRes,
                 cidRes, desiredPeriod, segMembership, segRes>>

ConfigFromElectionProofAct ==
  /\ eproof # <<>> /\ ~eproof[1].err
  /\ fromEProof = <<>>
  /\ fromEProof' = <<ConfigFromElectionProof(eproof[1])>>
  /\ UNCHANGED <<cd, res, ticket, fromTicket, eproof, altered, y, yRes,
                 cidRes, desiredPeriod, segMembership, segRes>>

\* one byte of one signature of the decoded certificate is altered
AlterSignatureAct ==
  /\ fromEProof # <<>> /\ ~fromEProof[1].err
  /\ ~altered /\ y = <<>>
  /\ \E id \in DOMAIN fromEProof[1].v.Cert :
       \E i \in 1..Len(fromEProof[1].v.Cert[id].Sig) :
         fromEProof' = <<[fromEProof[1] EXCEPT !.v.Cert[id].Sig = AlterSig(@, i)]>>
  /\ altered' = TRUE
  /\ UNCHANGED <<cd, res, ticket, fromTicket, eproof, y, yRes,
                 cidRes, desiredPeriod, segMembership, segRes>>

\* the receiver puts the election slot's certificate into the proof slot's
\* record and verifies it
ReassembleAndVerifyAct ==
  /\ fromTicket # <<>> /\ ~fromTicket[1].err
  /\ fromEProof # <<>> /\ ~fromEProof[1].err
  /\ y = <<>>
  /\ y' = <<[fromTicket[1].v EXCEPT !.Config.Cert = fromEProof[1].v.Cert]>>
  /\ \E order \in Orders(DOMAIN fromEProof[1].v.Cert) :
       yRes' = <<Verify(y'[1], order)>>
  /\ UNCHANGED <<cd, res, ticket, fromTicket, eproof, fromEProof, altered,
                 cidRes, desiredPeriod, segMembership, segRes>>

CidAct ==
  /\ cidRes = <<>>
  /\ cidRes' = <<Cid(cd.Checkpoint)>>
  /\ UNCHANGED <<cd, res, ticket, fromTicket, eproof, fromEProof, altered, y, yRes,
                 desiredPeriod, segMembership, segRes>>

SegmentAct ==
  /\ segRes = <<>>
  /\ segRes' = <<segmentForCheckpointPeriod(desiredPeriod, segMembership)>>
  /\ UNCHANGED <<cd, res, ticket, fromTicket, eproof, fromEProof, altered, y, yRes,
                 cidRes, desiredPeriod, segMembership>>

\* ------------------------------------------------------------ specifications
Next == \E run \in Runs : VerifyAct(run)
NextProofSlot == AsVRFProofAct \/ CheckpointFromVRFProofAct
NextElectionSlot == ConfigAsElectionProofAct \/ ConfigFromElectionProofAct
NextEndToEnd ==
  \/ VerifyAct(1)
  \/ AsVRFProofAct
  \/ CheckpointFromVRFProofAct
  \/ ConfigAsElectionProofAct
  \/ ConfigFromElectionProofAct
  \/ AlterSignatureAct
  \/ ReassembleAndVerifyAct
NextCid == CidAct
NextSegment == SegmentAct

Spec == Init /\ [][Next]_vars
SpecProofSlot == InitProofSlot /\ [][NextProofSlot]_vars
SpecElectionSlot == InitElectionSlot /\ [][NextElectionSlot]_vars
SpecEndToEnd == InitEndToEnd /\ [][NextEndToEnd]_vars
SpecCid == InitCid /\ [][NextCid]_vars
SpecSegment == InitSegment /\ [][NextSegment]_vars

\* ------------------------------------------------------------ properties
\* What the properties say about the input, stated without the operators
\* of Verify.
Members == IF Len(cd.Config.Memberships) = 0 THEN {} ELSE DOMAIN cd.Config.Memberships[1].M
HasMembership == Len(cd.Config.Memberships) >= 1
Signers == DOMAIN cd.Config.Cert
CertSize == Cardinality(Signers)
MemberCount == Cardinality(Members)
\* floor((n-1)/3) + 1
QuorumCount == ((MemberCount - 1) \div 3) + 1
ValidEntry(id) == cd.Config.Cert[id].Sig = SignatureOf(id, CheckBytes(cd))
Outsiders == Signers \ Members
BadlySigned == {id \in Signers \cap Members : ~ValidEntry(id)}
Called(v) == v # <<>>

\* C1 (as stated): with n = |memberships[0]| and k = |certificate|, Verify
\* fails with the insufficient-signatures error exactly when
\* k < floor((n-1)/3) + 1, for every n >= 0.
C1_FloorThreshold ==
  \A run \in Runs :
    (Called(res[run]) /\ HasMembership) =>
      (res[run][1].kind = "insufficient" <=> CertSize < QuorumCount)

\* C1 (amended): for n >= 1 Verify fails with the insufficient-signatures
\* error exactly when k < floor((n-1)/3) + 1; for n = 0 the division
\* truncates toward zero, one entry is asked for, and Verify fails with that
\* error exactly when k = 0.  The error reports k and the count asked for,
\* whatever the certificate holds, and Verify never succeeds with
\* k < floor((n-1)/3) + 1.
C1_Threshold ==
  \A run \in Runs :
    (Called(res[run]) /\ HasMembership) =>
      LET asked == IF MemberCount = 0 THEN 1 ELSE QuorumCount
          r == res[run][1]
      IN /\ r.kind = "insufficient" <=> CertSize < asked
         /\ r.kind = "insufficient" => (r.got = CertSize /\ r.required = asked)
         /\ r.kind = "ok" => CertSize >= QuorumCount

\* four members, one certificate entry, and that entry is no valid member
\* signature: the count alone decides
C1_Witness ==
  \E run \in Runs :
    /\ Called(res[run]) /\ HasMembership
    /\ MemberCount = 4 /\ CertSize = 1
    /\ Outsiders \cup BadlySigned # {}
    /\ res[run][1].kind = "insufficient"

\* C2: Verify succeeds only if every certificate entry is signed by a member
\* of memberships[0] with a signature that verifies against the pre-image.
C2_AllOrNothing ==
  \A run \in Runs :
    (Called(res[run]) /\ res[run][1].kind = "ok") =>
      \A id \in Signers : id \in Members /\ ValidEntry(id)

\* enough valid member signatures beside one failing entry, and Verify fails
C2_Witness ==
  \E run \in Runs :
    /\ Called(res[run]) /\ HasMembership
    /\ MemberCount = 4
    /\ Cardinality(Outsiders \cup BadlySigned) = 1
    /\ CertSize - 1 >= QuorumCount
    /\ res[run][1].kind \in {"unauthorized", "invalidsig"}

\* C3 (as stated): a certificate with an entry of a node that is no key of
\* memberships[0] makes Verify fail with the unauthorized-signer error.
C3_AlwaysUnauthorized ==
  \A run \in Runs :
    (Called(res[run]) /\ HasMembership /\ Outsiders # {}) =>
      res[run][1].kind = "unauthorized"

\* C3 (amended): such a certificate makes Verify fail: with the
\* insufficient-signatures error when the certificate is smaller than the
\* count asked for, otherwise with the unauthorized-signer error naming a
\* non-member entry or with the invalid-signature error naming a member's
\* entry that does not verify; when the count is met and every member's
\* entry verifies, the error is the unauthorized-signer error.
C3_UnauthorizedFails ==
  \A run \in Runs :
    (Called(res[run]) /\ HasMembership /\ Outsiders # {}) =>
      LET asked == IF MemberCount = 0 THEN 1 ELSE QuorumCount
          r == res[run][1]
      IN /\ r.kind \in {"insufficient", "unauthorized", "invalidsig"}
         /\ r.kind = "insufficient" <=> CertSize < asked
         /\ r.kind = "unauthorized" => r.node \in Outsiders
         /\ r.kind = "invalidsig" => r.node \in BadlySigned
         /\ (CertSize >= asked /\ BadlySigned = {}) => r.kind = "unauthorized"

\* the count is met by the certificate and a non-member entry is reported
C3_Witness ==
  \E run \in Runs :
    /\ Called(res[run]) /\ HasMembership
    /\ MemberCount = 4 /\ CertSize >= QuorumCount
    /\ Cardinality(Signers \cap Members) >= QuorumCount
    /\ Outsiders # {}
    /\ res[run][1].kind = "unauthorized"

\* C9: Verify returns success or one of the three certificate-validation
\* failures for every CheckpointData, one with no membership included.
C9_Total ==
  \A run \in Runs :
    Called(res[run]) =>
      res[run][1].kind \in {"ok", "insufficient", "unauthorized", "invalidsig"}

\* C10 (as stated): two evaluations of Verify on the same input yield the
\* same outcome, failure kind and node included, whatever the visiting order.
C10_SameOutcome ==
  (Called(res[1]) /\ Called(res[2])) => res[1] = res[2]

\* C10 (amended): two evaluations agree on success, on the
\* insufficient-signatures error and on the absence of a membership; a
\* failing entry's error names an entry that fails, and when at most one
\* entry of the certificate fails the two outcomes are the same.  With two
\* or more failing entries the entry reported is the first the range loop
\* visits.
C10_SameVerdict ==
  (Called(res[1]) /\ Called(res[2])) =>
    /\ \A kind \in {"ok", "insufficient", "panic"} :
         res[1][1].kind = kind <=> res[2][1].kind = kind
    /\ \A run \in Runs :
         res[run][1].kind \in {"unauthorized", "invalidsig"} =>
           res[run][1].node \in Outsiders \cup BadlySigned
    /\ Cardinality(Outsiders \cup BadlySigned) <= 1 => res[1] = res[2]

\* two runs over a certificate of three entries, one of them failing
C10_Witness ==
  /\ Called(res[1]) /\ Called(res[2])
  /\ CertSize = 3 /\ Cardinality(Outsiders \cup BadlySigned) = 1
  /\ res[1][1].kind = "invalidsig" /\ res[1] = res[2]

\* ---- proof slot
SameBlockIDs(a, b) == a.BlockCids = b.BlockCids
EncodableInput == \A i \in 1..Len(cd.Checkpoint.BlockCids) : cd.Checkpoint.BlockCids[i] # Undef

\* C4: for a valid x, CheckpointFromVRFProof(x.AsVRFProof()) succeeds and
\* returns a record whose certificate is empty and whose checkpoint height,
\* block IDs, parent, sequence number, epoch number, memberships and segment
\* length are those of x.
C4_ProofSlotRoundTrip ==
  /\ (Called(ticket) /\ EncodableInput /\ cd.Checkpoint.Parent.Cid # Undef) => ~ticket[1].err
  /\ Called(fromTicket) =>
       /\ ~fromTicket[1].err
       /\ LET d == fromTicket[1].v
          IN /\ DOMAIN d.Config.Cert = {}
             /\ d.Checkpoint.Height = cd.Checkpoint.Height
             /\ SameBlockIDs(d.Checkpoint, cd.Checkpoint)
             /\ d.Checkpoint.Parent = cd.Checkpoint.Parent
             /\ d.Sn = cd.Sn
             /\ d.Config.EpochNr = cd.Config.EpochNr
             /\ d.Config.Memberships = cd.Config.Memberships
             /\ d.Config.SegmentLength = cd.Config.SegmentLength

\* a record with block IDs, memberships and a certificate went through the slot
C4_Witness ==
  /\ Called(fromTicket)
  /\ Len(cd.Checkpoint.BlockCids) = MaxBlockCids
  /\ Len(cd.Config.Memberships) = MaxMemberships
  /\ MemberCount = 4
  /\ CertSize = 2
  /\ cd.Sn # cd.Config.EpochNr

\* ---- election slot
\* C5: for a valid x, ConfigFromElectionProof(x.ConfigAsElectionProof())
\* succeeds and returns an EpochConfig with no memberships and with the epoch
\* number, certificate and segment length of x.config.
C5_ElectionSlotRoundTrip ==
  /\ Called(eproof) => ~eproof[1].err
  /\ Called(fromEProof) =>
       /\ ~fromEProof[1].err
       /\ LET c == fromEProof[1].v
          IN /\ Len(c.Memberships) = 0
             /\ c.EpochNr = cd.Config.EpochNr
             /\ DOMAIN c.Cert = DOMAIN cd.Config.Cert
             /\ \A id \in DOMAIN cd.Config.Cert : c.Cert[id].Sig = cd.Config.Cert[id].Sig
             /\ c.SegmentLength = cd.Config.SegmentLength

\* a configuration with memberships and three signatures went through the slot
C5_Witness ==
  /\ Called(fromEProof)
  /\ Len(cd.Config.Memberships) = MaxMemberships
  /\ MemberCount = 4
  /\ CertSize = 3
  /\ \E id \in Signers : Len(cd.Config.Cert[id].Sig) > 0
  /\ cd.Config.EpochNr # cd.Config.SegmentLength

\* ---- both slots
SameCheckpointData(a, b) ==
  /\ a.Checkpoint.Height = b.Checkpoint.Height
  /\ SameBlockIDs(a.Checkpoint, b.Checkpoint)
  /\ a.Checkpoint.Parent = b.Checkpoint.Parent
  /\ a.Sn = b.Sn
  /\ a.Config = b.Config

\* C6: when Verify succeeds on x, the record y made of the decoded proof slot
\* and the certificate of the decoded election slot equals x and Verify(y)
\* succeeds; with one signature of that certificate altered before the
\* reassembly, Verify(y) fails with the invalid-signature error.
C6_EndToEnd ==
  (Called(res[1]) /\ res[1][1].kind = "ok" /\ Called(yRes)) =>
    IF altered THEN yRes[1].kind = "invalidsig"
    ELSE SameCheckpointData(y[1], cd) /\ yRes[1].kind = "ok"

\* four members, two valid signatures, one of them altered on the way
C6_Witness ==
  /\ Called(res[1]) /\ res[1][1].kind = "ok" /\ Called(yRes)
  /\ MemberCount = 4 /\ CertSize = 2
  /\ Len(cd.Checkpoint.BlockCids) = MaxBlockCids
  /\ altered /\ yRes[1].kind = "invalidsig"

\* ---- Cid
EmptyCheckpoint ==
  /\ cd.Checkpoint.Height = 0
  /\ cd.Checkpoint.BlockCidsNil
  /\ cd.Checkpoint.Parent.Height = 0
  /\ cd.Checkpoint.Parent.Cid = Undef

\* C7 (as stated): Cid returns the undefined identifier if and only if the
\* checkpoint is empty.
C7_UndefIffEmpty ==
  Called(cidRes) => (cidRes[1].cid = Undef <=> EmptyCheckpoint)

\* C7 (amended): Cid returns the undefined identifier without an error if
\* and only if the checkpoint is empty; for every other checkpoint it returns
\* a defined content-hash, unless the canonical encoding fails (a block or
\* parent identifier is undefined), and then it returns the error together
\* with the undefined identifier.
C7_UndefWithoutErrorIffEmpty ==
  Called(cidRes) =>
    /\ (cidRes[1].cid = Undef /\ ~cidRes[1].err) <=> EmptyCheckpoint
    /\ ~EmptyCheckpoint =>
         /\ cidRes[1].err <=> (~EncodableInput \/ cd.Checkpoint.Parent.Cid = Undef)
         /\ cidRes[1].err => cidRes[1].cid = Undef
         /\ ~cidRes[1].err => cidRes[1].cid # Undef

\* a height-zero checkpoint with no parent that lists a block: not empty
C7_Witness ==
  /\ Called(cidRes)
  /\ cd.Checkpoint.Height = 0 /\ cd.Checkpoint.Parent.Height = 0
  /\ ~cd.Checkpoint.BlockCidsNil
  /\ ~EmptyCheckpoint
  /\ cidRes[1].err /\ cidRes[1].cid = Undef

\* ---- segment length
\* C8: segmentForCheckpointPeriod(p, membership) with n = |membership|
\* returns floor(p / n) when that is at least 1 and otherwise fails with the
\* invalid-period error; it has no other outcome.
C8_TwoOutcomes ==
  Called(segRes) =>
    LET n == Cardinality(DOMAIN segMembership)
    IN /\ segRes[1].kind \in {"ok", "error"}
       /\ n > 0 =>
            /\ segRes[1].kind = "ok" <=> desiredPeriod \div n >= 1
            /\ segRes[1].kind = "ok" => segRes[1].segment = desiredPeriod \div n

====
